---- MODULE Spec2Model ----
(***************************************************************************)
(* Model of the catcher-velo-tracker workout tracker: the schedule         *)
(* generator, the workout expansion, the per-day and program-wide          *)
(* completion statistics and the WorkoutTracker component's state          *)
(* (schedule grid, start date, expanded workout, view mode, localStorage). *)
(*                                                                         *)
(* Conventions.  Strings the code takes apart (day tokens, workout-type    *)
(* names) are sequences of one-character strings.  A JavaScript object is  *)
(* a function from field names to values; an absent field is a name that   *)
(* is not in the DOMAIN.  A Date is its local calendar day number and the  *)
(* time elapsed since local midnight.  Week and day indices are 0-based as *)
(* in the code; sequences are 1-based, so grid[w + 1][d + 1] is day (w,d). *)
(***************************************************************************)
EXTENDS Integers, Sequences, FiniteSets, TLC

VARIABLES program, schedule, startDate, expandedWorkoutId, viewMode, storage, ops, last, gen

vars == <<program, schedule, startDate, expandedWorkoutId, viewMode, storage, ops, last, gen>>

(***************************************************************************)
(* Bounds of the model.                                                    *)
(***************************************************************************)
\* days in a month of the model calendar (small, so that setDate overflows)
MonthLen == 5
\* number of schedule mutations explored in one session
MaxOps == 2
\* number of weeks of the programs the tracker is run on
NumWeeks == 1

\* null and undefined are objects of their own, comparable with any object
Null == [null |-> TRUE]
Undefined == [undefined |-> TRUE]

(***************************************************************************)
(* Generic helpers.                                                        *)
(***************************************************************************)
\* object spread { ...a, ...b }
Spread(a, b) ==
  [k \in (DOMAIN a) \cup (DOMAIN b) |-> IF k \in DOMAIN b THEN b[k] ELSE a[k]]

\* Array.prototype.flat on an array of arrays
RECURSIVE Flat(_)
Flat(ss) == IF ss = <<>> THEN <<>> ELSE Head(ss) \o Flat(Tail(ss))

(***************************************************************************)
(* String functions, on sequences of characters.                           *)
(***************************************************************************)
IsPrefixAt(s, pat, i) ==
  /\ i + Len(pat) - 1 <= Len(s)
  /\ \A j \in 1..Len(pat) : s[i + j - 1] = pat[j]

\* String.prototype.indexOf, 1-based; 0 when pat does not occur
IndexOf(s, pat) ==
  IF \E i \in 1..Len(s) : IsPrefixAt(s, pat, i)
  THEN CHOOSE i \in 1..Len(s) :
         /\ IsPrefixAt(s, pat, i)
         /\ \A j \in 1..(i - 1) : ~IsPrefixAt(s, pat, j)
  ELSE 0

\* s.split(sep)[0]
SplitFirst(s, sep) ==
  IF IndexOf(s, sep) = 0 THEN s ELSE SubSeq(s, 1, IndexOf(s, sep) - 1)

RECURSIVE TrimLeft(_)
TrimLeft(s) ==
  IF s # <<>> /\ Head(s) = " " THEN TrimLeft(Tail(s)) ELSE s

RECURSIVE TrimRight(_)
TrimRight(s) ==
  IF s # <<>> /\ s[Len(s)] = " " THEN TrimRight(SubSeq(s, 1, Len(s) - 1)) ELSE s

\* String.prototype.trim
Trim(s) == TrimRight(TrimLeft(s))

\* s.replace(pat, '') with a string pattern: removes the first occurrence only
RemoveFirst(s, pat) ==
  IF IndexOf(s, pat) = 0 THEN s
  ELSE SubSeq(s, 1, IndexOf(s, pat) - 1)
         \o SubSeq(s, IndexOf(s, pat) + Len(pat), Len(s))

SepOR == <<" ", "O", "R", " ">>
Star == <<"*">>

\* common/utils.ts
getBaseWorkout(workout) == RemoveFirst(Trim(SplitFirst(workout, SepOR)), Star)

\* the local copy in workout-detail-card.tsx (no trim)
getBaseWorkoutLocal(workout) == RemoveFirst(SplitFirst(workout, SepOR), Star)

\* String.prototype.toLowerCase on the section names and titles in use
toLowerCase(name) ==
  CASE name = "Warmup" -> "warmup"
    [] name = "Throwing" -> "throwing"
    [] name = "Recovery" -> "recovery"
    [] name = "Daily Warmup" -> "daily warmup"
    [] name = "Recovery Work" -> "recovery work"
    [] name = "Warm-up" -> "warm-up"
    [] name = "Rest Day" -> "rest day"
    [] OTHER -> name

(***************************************************************************)
(* Dates.                                                                  *)
(***************************************************************************)
MkDate(day, ms) == [day |-> day, ms |-> ms]

\* Date.prototype.getDate: the day of the month, 1-based
getDate(date) == (date.day % MonthLen) + 1

\* Date.prototype.setDate: day k of the date's month, rolling over months
setDate(date, k) == [date EXCEPT !.day = (date.day - (date.day % MonthLen)) + (k - 1)]

\* common/utils.ts: setHours(0, 0, 0, 0) on a copy
normalizeDate(date) == [date EXCEPT !.ms = 0]

\* date plus n calendar days
AddDays(date, n) == [date EXCEPT !.day = date.day + n]

(***************************************************************************)
(* Schedule generator.                                                     *)
(***************************************************************************)
Throw(msg) == [ok |-> FALSE, error |-> msg]
Return(v) == [ok |-> TRUE, value |-> v]

EmptyCompleted == [k \in {} |-> TRUE]

\* variant: day indices taken as 1-based
ScheduledDate_OneBased(normalizedStart, weekIndex, dayIndex) ==
  normalizeDate(setDate(normalizedStart,
                        getDate(normalizedStart) + (weekIndex * 7) + dayIndex + 1))

\* variant: a week advances the date by six days
ScheduledDate_SixDayStride(normalizedStart, weekIndex, dayIndex) ==
  normalizeDate(setDate(normalizedStart,
                        getDate(normalizedStart) + (weekIndex * 6) + dayIndex))

\* the date of day (weekIndex, dayIndex): new Date(normalizedStart), setDate
ScheduledDate(normalizedStart, weekIndex, dayIndex) ==
  normalizeDate(setDate(normalizedStart,
                        getDate(normalizedStart) + (weekIndex * 7) + dayIndex))

generateSchedule(start, prog) ==
  LET normalizedStart == normalizeDate(start) IN
  IF \/ "schedule" \notin DOMAIN prog
     \/ prog.schedule = Undefined
     \/ "weeks" \notin DOMAIN prog.schedule
  THEN Throw("Invalid program schedule data")
  ELSE Return(
    [w \in 1..Len(prog.schedule.weeks) |->
      [d \in 1..Len(prog.schedule.weeks[w].days) |->
        [date |-> ScheduledDate(normalizedStart, w - 1, d - 1),
         workout |-> prog.schedule.weeks[w].days[d],
         completed |-> EmptyCompleted]]])

\* variant: the last day is taken to be programLength * 7 days after the start
calculateEndDate_NoMinusOne(start, programLength) ==
  setDate(start, getDate(start) + (programLength * 7))

\* common/utils.ts: new Date(startDate), setDate(getDate() + length * 7 - 1)
calculateEndDate(start, programLength) ==
  setDate(start, getDate(start) + (programLength * 7) - 1)

(***************************************************************************)
(* Program catalog: base exercises and workout types.                      *)
(***************************************************************************)
\* exercises.json: "e3" is referenced by workouts but has no catalog entry
ExerciseData ==
  [exercises |->
    [id \in {"e1", "e2"} |->
      IF id = "e1"
      THEN [id |-> "e1", name |-> "Foam Roll", category |-> "warmup",
            videoUrl |-> "v1", defaultSets |-> 2, defaultReps |-> "10",
            notes |-> "slow"]
      ELSE [id |-> "e2", name |-> "Long Toss", category |-> "throwing",
            defaultReps |-> "30s", defaultRpe |-> "70%", defaultNotes |-> "easy"]]]

Occ(id) == [id |-> id]

Section(name, exercises) == [name |-> name, exercises |-> exercises]

WorkoutType(id, sections) ==
  [id |-> id, name |-> id, colorClass |-> "c", sections |-> sections]

NameA == <<"A">>
NameB == <<"B">>
NameOff == <<"O", "f", "f">>
NameR == <<"R">>
NameX == <<"X">>

\* sections named as getWorkoutProgram expects them
TypeA ==
  WorkoutType("a", <<Section("Warmup", <<Occ("e1")>>),
                     Section("Throwing", <<[id |-> "e2", rpe |-> "60%"]>>)>>)

\* sections named as in the shipped program.json ("Daily Warmup", ...)
TypeB ==
  WorkoutType("b", <<Section("Daily Warmup", <<Occ("e1")>>),
                     Section("Recovery", <<[id |-> "e3", reps |-> "8"]>>)>>)

\* a rest day that also lists a warm-up
TypeOff ==
  WorkoutType("off", <<Section("Warmup", <<Occ("e1")>>),
                       Section("Recovery", <<Occ("e2")>>)>>)

\* a rest day with a recovery section only
TypeOffRecovery ==
  WorkoutType("off", <<Section("Recovery", <<Occ("e2")>>)>>)

\* as "Sunday" in the shipped program.json: one section, "Recovery Work"
TypeR ==
  WorkoutType("r", <<Section("Recovery Work", <<Occ("e1")>>)>>)

(***************************************************************************)
(* Workout expansion (getWorkoutProgram).                                  *)
(***************************************************************************)
mergeExerciseWithDefaults(exercise) ==
  IF exercise.id \notin DOMAIN ExerciseData.exercises
  THEN exercise
  ELSE Spread(ExerciseData.exercises[exercise.id], exercise)

\* sections.find(s => s.name.toLowerCase() === lname)?.exercises.map(merge) || []
SectionExercises(sections, lname) ==
  IF \E i \in 1..Len(sections) : toLowerCase(sections[i].name) = lname
  THEN LET i == CHOOSE i \in 1..Len(sections) :
                  /\ toLowerCase(sections[i].name) = lname
                  /\ \A j \in 1..(i - 1) : toLowerCase(sections[j].name) # lname
       IN [k \in 1..Len(sections[i].exercises) |->
             mergeExerciseWithDefaults(sections[i].exercises[k])]
  ELSE <<>>

\* { f: obj.f } with the field left out when obj.f is undefined
OptField(obj, f) == [k \in {f} \cap DOMAIN obj |-> obj[k]]

getWorkoutProgram(workout, prog) ==
  LET baseWorkout == getBaseWorkout(workout) IN
  IF baseWorkout \notin DOMAIN prog.workoutTypes
  THEN Undefined
  ELSE LET workoutType == prog.workoutTypes[baseWorkout] IN
       Spread(Spread([warmup |-> SectionExercises(workoutType.sections, "warmup"),
                      throwing |-> SectionExercises(workoutType.sections, "throwing"),
                      recovery |-> SectionExercises(workoutType.sections, "recovery")],
                     OptField(workoutType, "rpeRange")),
              OptField(workoutType, "notes"))

(***************************************************************************)
(* DayCard: the workout type a card takes its name and colours from.       *)
(***************************************************************************)
\* the fallback of getWorkoutInfo for a token without a workout type
CustomWorkout(workout) ==
  [id |-> "custom", name |-> workout,
   colorClass |-> "bg-gray-100 hover:bg-gray-200 text-gray-900",
   description |-> "Custom workout", sections |-> <<>>]

\* variant: no fallback, the failed lookup is returned as it is
getWorkoutInfo_NoFallback(workout, workoutTypes) ==
  IF getBaseWorkout(workout) \notin DOMAIN workoutTypes
  THEN Undefined
  ELSE workoutTypes[getBaseWorkout(workout)]

getWorkoutInfo(workout, workoutTypes) ==
  IF getBaseWorkout(workout) \notin DOMAIN workoutTypes
  THEN CustomWorkout(workout)
  ELSE workoutTypes[getBaseWorkout(workout)]

(***************************************************************************)
(* ExerciseRow: the values shown for one exercise of the detail view.      *)
(***************************************************************************)
\* is the value v of field f falsy: 0 for the numeric sets, '' for the others
Falsy(f, v) == IF f \in {"sets", "defaultSets"} THEN v = 0 ELSE v = ""

\* exercise[f] || exercise[defaultF]; <<v>> is the value v, <<>> is undefined
OrDefault(exercise, f, defaultF) ==
  IF f \in DOMAIN exercise /\ ~Falsy(f, exercise[f]) THEN <<exercise[f]>>
  ELSE IF defaultF \in DOMAIN exercise THEN <<exercise[defaultF]>>
  ELSE <<>>

\* the values ExerciseRow extracts from the exercise it is given
ExerciseRow(exercise) ==
  [sets |-> OrDefault(exercise, "sets", "defaultSets"),
   reps |-> OrDefault(exercise, "reps", "defaultReps"),
   rpe |-> OrDefault(exercise, "rpe", "defaultRpe"),
   notes |-> OrDefault(exercise, "notes", "defaultNotes"),
   name |-> OrDefault(exercise, "name", "id")]

(***************************************************************************)
(* Per-day statistics computed while rendering the grid, and the program   *)
(* progress.                                                               *)
(***************************************************************************)
\* [...program.warmup, ...program.throwing, ...program.recovery].length
ExerciseListLength(details) ==
  Len(details.warmup \o details.throwing \o details.recovery)

\* Object.values(day.completed).filter(Boolean).length
completedCount(day) ==
  Cardinality({k \in DOMAIN day.completed : day.completed[k] = TRUE})

\* variant: strictly more completed entries than exercises are required
isCompleted_Strict(day, prog) ==
  LET details == getWorkoutProgram(day.workout, prog) IN
  IF details # Undefined
  THEN LET totalEx == ExerciseListLength(details) IN
       totalEx > 0 /\ completedCount(day) > totalEx
  ELSE FALSE

isCompleted(day, prog) ==
  LET details == getWorkoutProgram(day.workout, prog) IN
  IF details # Undefined
  THEN LET totalEx == ExerciseListLength(details) IN
       totalEx > 0 /\ completedCount(day) >= totalEx
  ELSE FALSE

\* variant: a completed day still counts as in progress
inProgress_IgnoresCompleted(day, prog) ==
  LET details == getWorkoutProgram(day.workout, prog) IN
  IF details # Undefined THEN completedCount(day) > 0 ELSE FALSE

inProgress(day, prog) ==
  LET details == getWorkoutProgram(day.workout, prog) IN
  IF details # Undefined
  THEN completedCount(day) > 0 /\ ~isCompleted(day, prog)
  ELSE FALSE

totalExercises(day, prog) ==
  LET details == getWorkoutProgram(day.workout, prog) IN
  IF details # Undefined THEN ExerciseListLength(details) ELSE 0

\* (completedCount / totalExercises) * 100, kept as an exact fraction
completionPercentage(day, prog) ==
  IF totalExercises(day, prog) > 0
  THEN [num |-> completedCount(day) * 100, den |-> totalExercises(day, prog)]
  ELSE Undefined

\* the filter of progressStats: is this day counted as completed
CountsAsCompletedDay(day, prog) ==
  LET details == getWorkoutProgram(day.workout, prog) IN
  IF details = Undefined THEN FALSE
  ELSE LET totalEx == ExerciseListLength(details) IN
       totalEx > 0 /\ completedCount(day) >= totalEx

\* Math.round(x) for x = num / den >= 0; NaN when den = 0
RoundDiv(num, den) == IF den = 0 THEN "NaN" ELSE (2 * num + den) \div (2 * den)

progressStats(grid, prog) ==
  LET allDays == Flat(grid)
      totalDays == Len(allDays)
      completedDays ==
        Cardinality({i \in 1..Len(allDays) : CountsAsCompletedDay(allDays[i], prog)})
  IN [percentage |-> RoundDiv(completedDays * 100, totalDays),
      completed |-> completedDays,
      total |-> totalDays]

(***************************************************************************)
(* Detail view (WorkoutDetailCard) and the identifiers of the grid.        *)
(***************************************************************************)
\* `week${weekIndex}-day${dayIndex}`
createWorkoutId(weekIndex, dayIndex) == [week |-> weekIndex, day |-> dayIndex]

\* variant: only the week of the identifier is compared
isExpanded_WeekOnly(expanded, weekIndex, dayIndex) ==
  expanded # Null /\ expanded.week = weekIndex

\* isExpanded = expandedWorkoutId === createWorkoutId(weekIndex, dayIndex)
isExpanded(expanded, weekIndex, dayIndex) ==
  expanded = createWorkoutId(weekIndex, dayIndex)

\* `week${weekIndex}-day${dayIndex}-${title.toLowerCase()}`
getSectionId(weekIndex, dayIndex, title) == <<weekIndex, dayIndex, toLowerCase(title)>>

\* `${sectionId}-${exercise.id}`
ExerciseKey(sectionId, exercise) == Append(sectionId, exercise.id)

\* section.exercises || []
ExercisesOrEmpty(details, f) == IF f \in DOMAIN details THEN details[f] ELSE <<>>

workoutSections(day, details) ==
  IF getBaseWorkoutLocal(day.workout) = NameOff
  THEN <<[title |-> "Rest Day", exercises |-> ExercisesOrEmpty(details, "recovery")]>>
  ELSE <<[title |-> "Warm-up", exercises |-> ExercisesOrEmpty(details, "warmup")],
         [title |-> "Throwing", exercises |-> ExercisesOrEmpty(details, "throwing")],
         [title |-> "Recovery", exercises |-> ExercisesOrEmpty(details, "recovery")]>>

\* the header of WorkoutSection: {completedCount} / {exercises.length}, with
\* completedCount = Object.values(completed).filter(Boolean).length
WorkoutSectionHeader(section, completed) ==
  [completedCount |-> Cardinality({k \in DOMAIN completed : completed[k]}),
   length |-> Len(section.exercises)]

SectionKeys(weekIndex, dayIndex, section) ==
  [i \in 1..Len(section.exercises) |->
     ExerciseKey(getSectionId(weekIndex, dayIndex, section.title), section.exercises[i])]

allExerciseIds(weekIndex, dayIndex, day, details) ==
  Flat([i \in 1..Len(workoutSections(day, details)) |->
          SectionKeys(weekIndex, dayIndex, workoutSections(day, details)[i])])

\* getWorkoutDetails(workoutId)?.details ?? {}
getWorkoutDetails(grid, prog, workoutId) ==
  IF \/ workoutId.week + 1 \notin DOMAIN grid
     \/ workoutId.day + 1 \notin DOMAIN grid[workoutId.week + 1]
  THEN Null
  ELSE LET day == grid[workoutId.week + 1][workoutId.day + 1]
           details == getWorkoutProgram(day.workout, prog)
       IN IF details = Undefined THEN Null
          ELSE [day |-> day, details |-> details,
                weekIndex |-> workoutId.week, dayIndex |-> workoutId.day]

DetailsOrEmpty(grid, prog, workoutId) ==
  IF getWorkoutDetails(grid, prog, workoutId) = Null
  THEN [k \in {} |-> <<>>]
  ELSE getWorkoutDetails(grid, prog, workoutId).details

\* expandedWorkoutId.startsWith(`week${weekIndex}`): the decimal digits of
\* weekIndex are a prefix of those of the expanded week
StartsWithWeek(workoutId, weekIndex) ==
  \/ workoutId.week = weekIndex
  \/ /\ weekIndex > 0
     /\ \E k \in 1..3 : workoutId.week \div (10 ^ k) = weekIndex

\* the detail cards on screen: the week and day index each one is given
DetailCards(grid, expanded, mode) ==
  IF expanded = Null THEN {}
  ELSE IF mode = "list"
  THEN {c \in {[weekIndex |-> expanded.week, dayIndex |-> expanded.day]} :
          /\ c.weekIndex + 1 \in DOMAIN grid
          /\ c.dayIndex + 1 \in DOMAIN grid[c.weekIndex + 1]}
  ELSE {[weekIndex |-> w - 1, dayIndex |-> expanded.day] :
          w \in {w \in DOMAIN grid : StartsWithWeek(expanded, w - 1)}}

(***************************************************************************)
(* Mutations of the grid (the setSchedule updaters of WorkoutTracker).     *)
(***************************************************************************)
\* !day.completed[exerciseId]
NotCompleted(day, exerciseId) ==
  IF exerciseId \in DOMAIN day.completed THEN ~day.completed[exerciseId] ELSE TRUE

\* handleExerciseComplete: { ...day, completed: { ...day.completed, [id]: ... } }
ToggledDay(day, exerciseId) ==
  Spread(day, [completed |->
                 Spread(day.completed,
                        [k \in {exerciseId} |-> NotCompleted(day, exerciseId)])])

\* handleBatchComplete: newCompleted[id] = completed for each id
BatchDay(day, exerciseIds, completed) ==
  Spread(day, [completed |->
                 Spread(day.completed,
                        [k \in {exerciseIds[i] : i \in 1..Len(exerciseIds)} |-> completed])])

\* handleNotesUpdate: { ...day, userNotes: notes }
NotedDay(day, notes) == Spread(day, [userNotes |-> notes])

\* the day an updater returns for the target day; update holds what the
\* updater closure has captured
UpdatedDay(day, update) ==
  CASE update.kind = "toggle" -> ToggledDay(day, update.exerciseId)
    [] update.kind = "batch" -> BatchDay(day, update.exerciseIds, update.completed)
    [] update.kind = "notes" -> NotedDay(day, update.notes)

\* variant: the day index is not compared, the whole week is updated
MapDay_WholeWeek(grid, weekIndex, dayIndex, update) ==
  [w \in DOMAIN grid |->
    [d \in DOMAIN grid[w] |->
      IF w - 1 = weekIndex THEN UpdatedDay(grid[w][d], update) ELSE grid[w][d]]]

\* prev.map((week, wIndex) => week.map((day, dIndex) => ...)): the day at
\* (weekIndex, dayIndex) is replaced by its update, the others are kept
MapDay(grid, weekIndex, dayIndex, update) ==
  [w \in DOMAIN grid |->
    [d \in DOMAIN grid[w] |->
      IF w - 1 = weekIndex /\ d - 1 = dayIndex
      THEN UpdatedDay(grid[w][d], update)
      ELSE grid[w][d]]]

handleExerciseComplete(grid, weekIndex, dayIndex, exerciseId) ==
  MapDay(grid, weekIndex, dayIndex, [kind |-> "toggle", exerciseId |-> exerciseId])

handleBatchComplete(grid, weekIndex, dayIndex, exerciseIds, completed) ==
  MapDay(grid, weekIndex, dayIndex,
         [kind |-> "batch", exerciseIds |-> exerciseIds, completed |-> completed])

handleNotesUpdate(grid, weekIndex, dayIndex, notes) ==
  MapDay(grid, weekIndex, dayIndex, [kind |-> "notes", notes |-> notes])

(***************************************************************************)
(* Persistence: JSON in localStorage.                                      *)
(***************************************************************************)
\* resolution of the clock: time units in a day
DayMs == 10
\* offset of local time from UTC, in time units
TzOffset == 3

\* Date.prototype.toISOString: the instant, in UTC
toISOString(date) == [iso |-> (date.day * DayMs + date.ms) - TzOffset]

\* variant: the UTC fields of the instant are taken as the local date
parseISO_IgnoresOffset(str) == MkDate(str.iso \div DayMs, str.iso % DayMs)

\* new Date(isoString): the same instant, read in local time
parseISO(str) ==
  MkDate((str.iso + TzOffset) \div DayMs, (str.iso + TzOffset) % DayMs)

\* JSON.stringify(schedule): dates become ISO strings
stringifySchedule(grid) ==
  [json |-> [w \in DOMAIN grid |->
              [d \in DOMAIN grid[w] |->
                 Spread(grid[w][d], [date |-> toISOString(grid[w][d].date)])]]]

\* a stored text that JSON.parse rejects
Corrupt == [text |-> "{"]

\* { ...day, date: new Date(day.date), completed: day.completed || {} }
reviveDay(day) ==
  Spread(day, [date |-> parseISO(day.date),
               completed |-> IF "completed" \in DOMAIN day
                             THEN day.completed ELSE EmptyCompleted])

\* the initial state of usePersistedSchedule
loadSchedule(saved, now, prog) ==
  IF saved = Null THEN generateSchedule(now, prog).value
  ELSE IF "json" \notin DOMAIN saved THEN generateSchedule(now, prog).value
  ELSE [w \in DOMAIN saved.json |->
         [d \in DOMAIN saved.json[w] |-> reviveDay(saved.json[w][d])]]

\* the initial state of useStartDate
loadStartDate(saved, now) ==
  IF saved = Null THEN normalizeDate(now) ELSE normalizeDate(parseISO(saved))

\* the initial state of viewMode
loadViewMode(saved) == IF saved = Null THEN "calendar" ELSE saved.text

\* the three save effects, with setItem succeeding: every key holds the
\* current value; throws is the set of keys whose setItem throws
Persisted(grid, start, mode) ==
  [schedule |-> stringifySchedule(grid),
   startDate |-> toISOString(start),
   viewMode |-> [text |-> mode],
   throws |-> {}]

\* try { localStorage.setItem(key, text) } catch { console.error(...) }
SaveKey(store, key, text) ==
  IF key \in store.throws THEN store ELSE [store EXCEPT ![key] = text]

\* variant: the save effect does not run after a mutation
SaveSchedule_Skipped(store, grid) == store

\* the save effect of usePersistedSchedule
SaveSchedule(store, grid) == SaveKey(store, "schedule", stringifySchedule(grid))

\* the save effect of useStartDate
SaveStartDate(store, start) == SaveKey(store, "startDate", toISOString(start))

\* the save effect of viewMode
SaveViewMode(store, mode) == SaveKey(store, "viewMode", [text |-> mode])

(***************************************************************************)
(* The programs the tracker is run on.                                     *)
(***************************************************************************)
TokAorB == <<"A", " ", "O", "R", " ", "B", "*">>
TokBStar == <<"B", "*">>

Weeks(n, days) == [w \in 1..n |-> [days |-> days]]

MkProgram(types, weeks) ==
  [id |-> "p", name |-> "P", workoutTypes |-> types,
   schedule |-> [length |-> Len(weeks), unit |-> "weeks", weeks |-> weeks]]

TypesV0 == [n \in {NameA, NameX, NameR, NameB} |-> TypeA]

TypesV1 ==
  [n \in {NameA, NameB, NameOff, NameR} |->
     CASE n = NameA -> TypeA
       [] n = NameB -> TypeB
       [] n = NameOff -> TypeOff
       [] n = NameR -> TypeR]

TypesV2 ==
  [n \in {NameA, NameB, NameOff} |->
     CASE n = NameA -> TypeR
       [] n = NameB -> TypeA
       [] n = NameOff -> TypeOffRecovery]

DaysV0 == <<NameA, NameX, NameR, NameA, NameA, NameA, NameB>>
DaysV1 == <<NameA, TokAorB, NameB, NameOff, NameR, NameX, TokBStar>>
DaysV2 == <<NameB, NameA, NameOff, NameX, NameR, TokAorB, NameB>>

\* the program of an earlier release, under the same program id
ProgramV0 == MkProgram(TypesV0, Weeks(NumWeeks, DaysV0))
ProgramV1 == MkProgram(TypesV1, Weeks(NumWeeks, DaysV1))
ProgramV2 == MkProgram(TypesV2, Weeks(NumWeeks, DaysV2))

\* a program whose schedule lists no weeks, as ProgramProvider accepts it
ProgramEmpty == MkProgram(TypesV1, <<>>)

Programs == {ProgramV1, ProgramV2, ProgramEmpty}

\* PROGRAM_START_DATE = new Date(): the time the module is loaded
Now == MkDate(7, 4)
PrevStart == MkDate(3, 0)

\* dates the user can enter in the date input
PickableDates == {MkDate(3, 0), MkDate(9, 0)}

NoteTexts == {"sore"}

\* the grid an earlier session left in storage: generated for ProgramV0,
\* days (0,0) and (0,1) marked complete, one exercise of day (0,2) ticked
SavedGridV0 ==
  LET g0 == generateSchedule(PrevStart, ProgramV0).value
      ids(d) == allExerciseIds(0, d, g0[1][d + 1],
                               getWorkoutProgram(g0[1][d + 1].workout, ProgramV0))
      g1 == handleBatchComplete(g0, 0, 0, ids(0), TRUE)
      g2 == handleBatchComplete(g1, 0, 1, ids(1), TRUE)
      g3 == handleExerciseComplete(g2, 0, 2, ids(2)[1])
      g4 == handleBatchComplete(g3, 0, 6, ids(6), TRUE)
  IN handleNotesUpdate(g4, 0, 0, "sore")

SavedSchedules == {Null, Corrupt, stringifySchedule(SavedGridV0)}
SavedStartDates == {Null, toISOString(PrevStart)}
SavedViewModes == {Null, [text |-> "list"]}

(***************************************************************************)
(* The WorkoutTracker component.                                           *)
(***************************************************************************)
Idle == [phase |-> "idle"]

Init ==
  /\ program \in Programs
  /\ \E savedSchedule \in SavedSchedules, savedStart \in SavedStartDates,
        savedView \in SavedViewModes :
       /\ schedule = loadSchedule(savedSchedule, Now, program)
       /\ startDate = loadStartDate(savedStart, Now)
       /\ viewMode = loadViewMode(savedView)
  /\ expandedWorkoutId = Null
  /\ storage = Persisted(schedule, startDate, viewMode)
  /\ ops = 0
  /\ last = [op |-> "none"]
  /\ gen = Idle

Range(s) == {s[i] : i \in 1..Len(s)}

GridIndices(grid) ==
  UNION {{[weekIndex |-> w - 1, dayIndex |-> d - 1] : d \in DOMAIN grid[w]} :
           w \in DOMAIN grid}

\* does any day of the grid carry a completion entry or notes
HasProgress(grid) ==
  \E c \in GridIndices(grid) :
    \/ DOMAIN grid[c.weekIndex + 1][c.dayIndex + 1].completed # {}
    \/ "userNotes" \in DOMAIN grid[c.weekIndex + 1][c.dayIndex + 1]

\* the handler that ran last, with the day it was called for
Called(op, weekIndex, dayIndex) ==
  [op |-> op, weekIndex |-> weekIndex, dayIndex |-> dayIndex]

DayAt(grid, weekIndex, dayIndex) == grid[weekIndex + 1][dayIndex + 1]

\* the keys of the exercise rows of the detail card c
CardKeys(c) ==
  allExerciseIds(c.weekIndex, c.dayIndex,
                 DayAt(schedule, c.weekIndex, c.dayIndex),
                 DetailsOrEmpty(schedule, program, expandedWorkoutId))

\* variant: a click while a day is expanded always collapses the view first
CardClick_CollapsesFirst(weekIndex, dayIndex) ==
  /\ expandedWorkoutId' =
       IF expandedWorkoutId = Null
       THEN createWorkoutId(weekIndex, dayIndex)
       ELSE Null
  /\ UNCHANGED <<program, schedule, startDate, viewMode, storage, ops, last, gen>>

\* handleCardClick
CardClick(weekIndex, dayIndex) ==
  /\ expandedWorkoutId' =
       IF expandedWorkoutId = createWorkoutId(weekIndex, dayIndex)
       THEN Null
       ELSE createWorkoutId(weekIndex, dayIndex)
  /\ UNCHANGED <<program, schedule, startDate, viewMode, storage, ops, last, gen>>

\* a click on an exercise row: onComplete -> handleExerciseComplete
ExerciseToggle ==
  /\ ops < MaxOps
  /\ \E c \in DetailCards(schedule, expandedWorkoutId, viewMode) :
       \E key \in Range(CardKeys(c)) :
         /\ schedule' = handleExerciseComplete(schedule, c.weekIndex, c.dayIndex, key)
         /\ last' = Called("toggle", c.weekIndex, c.dayIndex)
  /\ storage' = SaveSchedule(storage, schedule')
  /\ ops' = ops + 1
  /\ UNCHANGED <<program, startDate, expandedWorkoutId, viewMode, gen>>

\* the Clear Progress button: onBatchComplete(allExerciseIds, false)
ClearProgress ==
  /\ ops < MaxOps
  /\ \E c \in DetailCards(schedule, expandedWorkoutId, viewMode) :
       /\ schedule' = handleBatchComplete(schedule, c.weekIndex, c.dayIndex,
                                          CardKeys(c), FALSE)
       /\ last' = Called("batch", c.weekIndex, c.dayIndex)
  /\ storage' = SaveSchedule(storage, schedule')
  /\ ops' = ops + 1
  /\ UNCHANGED <<program, startDate, expandedWorkoutId, viewMode, gen>>

\* the Complete button: onBatchComplete(allExerciseIds, true); onClose()
MarkComplete ==
  /\ ops < MaxOps
  /\ \E c \in DetailCards(schedule, expandedWorkoutId, viewMode) :
       /\ schedule' = handleBatchComplete(schedule, c.weekIndex, c.dayIndex,
                                          CardKeys(c), TRUE)
       /\ last' = Called("batch", c.weekIndex, c.dayIndex)
  /\ expandedWorkoutId' = Null
  /\ storage' = SaveSchedule(storage, schedule')
  /\ ops' = ops + 1
  /\ UNCHANGED <<program, startDate, viewMode, gen>>

\* the close button: handleWorkoutClose
WorkoutClose ==
  /\ DetailCards(schedule, expandedWorkoutId, viewMode) # {}
  /\ expandedWorkoutId' = Null
  /\ UNCHANGED <<program, schedule, startDate, viewMode, storage, ops, last, gen>>

\* onNotesChange -> handleNotesUpdate
NotesChange ==
  /\ ops < MaxOps
  /\ \E c \in DetailCards(schedule, expandedWorkoutId, viewMode), notes \in NoteTexts :
       /\ schedule' = handleNotesUpdate(schedule, c.weekIndex, expandedWorkoutId.day, notes)
       /\ last' = Called("notes", c.weekIndex, expandedWorkoutId.day)
  /\ storage' = SaveSchedule(storage, schedule')
  /\ ops' = ops + 1
  /\ UNCHANGED <<program, startDate, expandedWorkoutId, viewMode, gen>>

\* the view switch button
ToggleViewMode ==
  /\ viewMode' = IF viewMode = "calendar" THEN "list" ELSE "calendar"
  /\ storage' = SaveViewMode(storage, viewMode')
  /\ UNCHANGED <<program, schedule, startDate, expandedWorkoutId, ops, last, gen>>

\* variant: the new grid keeps the completion maps and notes of the old one
handleDateChange_KeepsProgress(newDate) ==
  /\ ops < MaxOps
  /\ startDate' = newDate
  /\ schedule' =
       [w \in DOMAIN schedule |->
         [d \in DOMAIN schedule[w] |->
           Spread(schedule[w][d],
                  [date |-> ScheduledDate(normalizeDate(newDate), w - 1, d - 1)])]]
  /\ expandedWorkoutId' = Null
  /\ storage' = SaveSchedule(SaveStartDate(storage, startDate'), schedule')
  /\ ops' = ops + 1
  /\ last' = [op |-> "dateChange", hadProgress |-> HasProgress(schedule),
              requested |-> newDate]
  /\ UNCHANGED <<program, viewMode>>

\* variant: the new start date and grid are kept only when they were saved
handleDateChange_RevertsOnThrow(newDate) ==
  /\ ops < MaxOps
  /\ startDate' = IF "startDate" \in storage.throws THEN startDate ELSE newDate
  /\ schedule' = IF "schedule" \in storage.throws THEN schedule
                 ELSE generateSchedule(newDate, program).value
  /\ expandedWorkoutId' = Null
  /\ storage' = SaveSchedule(SaveStartDate(storage, startDate'), schedule')
  /\ ops' = ops + 1
  /\ last' = [op |-> "dateChange", hadProgress |-> HasProgress(schedule),
              requested |-> newDate]
  /\ UNCHANGED <<program, viewMode>>

\* handleDateChange, as DatePicker calls it, with the save effects
handleDateChange(newDate) ==
  /\ ops < MaxOps
  /\ startDate' = newDate
  /\ schedule' = generateSchedule(newDate, program).value
  /\ expandedWorkoutId' = Null
  /\ storage' = SaveSchedule(SaveStartDate(storage, startDate'), schedule')
  /\ ops' = ops + 1
  /\ last' = [op |-> "dateChange", hadProgress |-> HasProgress(schedule),
              requested |-> newDate]
  /\ UNCHANGED <<program, viewMode>>

\* DatePicker.handleConfirmDateChange: onDateChange(normalizeDate(tempDate))
ConfirmDateChange ==
  \E tempDate \in PickableDates :
    /\ tempDate # startDate
    /\ handleDateChange(normalizeDate(tempDate))
    /\ UNCHANGED gen

\* DatePicker.handleStartOver: onDateChange(normalizeDate(new Date()))
StartOver == handleDateChange(normalizeDate(Now)) /\ UNCHANGED gen

Next ==
  \/ \E c \in GridIndices(schedule) : CardClick(c.weekIndex, c.dayIndex)
  \/ ExerciseToggle
  \/ ClearProgress
  \/ MarkComplete
  \/ WorkoutClose
  \/ NotesChange
  \/ ToggleViewMode
  \/ ConfirmDateChange
  \/ StartOver

Spec == Init /\ [][Next]_vars

(***************************************************************************)
(* The WorkoutTracker in a browser whose storage refuses writes: setItem   *)
(* throws for the schedule (quota exceeded) or for every key.              *)
(***************************************************************************)
InitQuota ==
  /\ program = ProgramV1
  /\ \E savedSchedule \in {Null, stringifySchedule(SavedGridV0)},
        throws \in {{"schedule"}, {"schedule", "startDate", "viewMode"}} :
       /\ schedule = loadSchedule(savedSchedule, Now, program)
       /\ startDate = loadStartDate(Null, Now)
       /\ viewMode = loadViewMode(Null)
       /\ storage =
            SaveViewMode(
              SaveSchedule(
                SaveStartDate([schedule |-> savedSchedule, startDate |-> Null,
                               viewMode |-> Null, throws |-> throws],
                              startDate),
                schedule),
              viewMode)
  /\ expandedWorkoutId = Null
  /\ ops = 0
  /\ last = [op |-> "none"]
  /\ gen = Idle

SpecQuota == InitQuota /\ [][Next]_vars

(***************************************************************************)
(* The schedule generator on its own: generateSchedule applied to programs *)
(* of every shape and to start dates at any time of day.                   *)
(***************************************************************************)
\* largest number of weeks of a generated program
GenMaxWeeks == 2
\* latest start day tried
GenMaxDay == 6

Days6 == <<NameA, TokAorB, NameB, NameOff, NameR, NameX>>
Days8 == <<NameA, TokAorB, NameB, NameOff, NameR, NameX, TokBStar, NameA>>

GenPrograms ==
  {[id |-> "p", name |-> "P", workoutTypes |-> TypesV1],
   [id |-> "p", name |-> "P", workoutTypes |-> TypesV1, schedule |-> Undefined],
   [id |-> "p", name |-> "P", workoutTypes |-> TypesV1,
    schedule |-> [length |-> 1, unit |-> "weeks"]],
   MkProgram(TypesV1, <<>>),
   MkProgram(TypesV1, <<[days |-> DaysV1], [days |-> Days6], [days |-> DaysV2]>>),
   [id |-> "p", name |-> "P", workoutTypes |-> TypesV1,
    schedule |-> [length |-> 2, unit |-> "weeks", weeks |-> Weeks(1, DaysV1)]]}
  \cup {MkProgram(TypesV1, Weeks(n, days)) :
          n \in 1..GenMaxWeeks, days \in {Days6, DaysV1, Days8}}

GenStarts == {MkDate(day, ms) : day \in 0..GenMaxDay, ms \in {0, 4}}

InitGen ==
  /\ gen \in {[phase |-> "input", program |-> p, start |-> s] :
                p \in GenPrograms, s \in GenStarts}
  /\ program = ProgramV1
  /\ schedule = <<>>
  /\ startDate = normalizeDate(Now)
  /\ expandedWorkoutId = Null
  /\ viewMode = "calendar"
  /\ storage = Persisted(schedule, startDate, viewMode)
  /\ ops = 0
  /\ last = [op |-> "none"]

\* the End Date of the DatePicker, for programs that state their length
EndDateShown(start, prog) ==
  IF "schedule" \in DOMAIN prog /\ "length" \in DOMAIN prog.schedule
  THEN calculateEndDate(start, prog.schedule.length)
  ELSE Undefined

Generate ==
  /\ gen.phase = "input"
  /\ gen' = [phase |-> "done", program |-> gen.program, start |-> gen.start,
             result |-> generateSchedule(gen.start, gen.program),
             endDate |-> EndDateShown(gen.start, gen.program)]
  /\ UNCHANGED <<program, schedule, startDate, expandedWorkoutId, viewMode,
                 storage, ops, last>>

NextGen == Generate

SpecGen == InitGen /\ [][NextGen]_vars

(***************************************************************************)
(* The exercise resolver on its own: mergeExerciseWithDefaults and         *)
(* ExerciseRow applied to exercise occurrences with every combination of   *)
(* fields.                                                                 *)
(***************************************************************************)
NoFields == [k \in {} |-> TRUE]

\* the objects { }, { f: v } for v in values
OptionalField(f, values) == {NoFields} \cup {[k \in {f} |-> v] : v \in values}

\* occurrences as a program's sections may list them
Occurrences ==
  {Spread(Spread(Spread(Spread(Spread(Spread(Spread(Occ(id), sets), reps), rpe),
                               notes), name), category), videoUrl) :
     id \in {"e1", "e2", "e3"},
     sets \in OptionalField("sets", {0, 3}),
     reps \in OptionalField("reps", {"", "5"}),
     rpe \in OptionalField("rpe", {"", "60%"}),
     notes \in OptionalField("notes", {"", "light"}),
     name \in OptionalField("name", {"Other"}),
     category \in OptionalField("category", {"other"}),
     videoUrl \in OptionalField("videoUrl", {"v9"})}

InitResolve ==
  /\ gen \in {[phase |-> "occurrence", exercise |-> o] : o \in Occurrences}
  /\ program = ProgramV1
  /\ schedule = <<>>
  /\ startDate = normalizeDate(Now)
  /\ expandedWorkoutId = Null
  /\ viewMode = "calendar"
  /\ storage = Persisted(schedule, startDate, viewMode)
  /\ ops = 0
  /\ last = [op |-> "none"]

\* the occurrence is merged with its base record and given to ExerciseRow
Resolve ==
  /\ gen.phase = "occurrence"
  /\ gen' = [phase |-> "shown", exercise |-> gen.exercise,
             resolved |-> mergeExerciseWithDefaults(gen.exercise),
             row |-> ExerciseRow(mergeExerciseWithDefaults(gen.exercise))]
  /\ UNCHANGED <<program, schedule, startDate, expandedWorkoutId, viewMode,
                 storage, ops, last>>

NextResolve == Resolve

SpecResolve == InitResolve /\ [][NextResolve]_vars

(***************************************************************************)
(* The token reduction on its own: getBaseWorkout and the copy of it in    *)
(* workout-detail-card.tsx applied to day tokens.                          *)
(***************************************************************************)
\* longest segment of a token tried
MaxTokenLen == 3

TokenChars == {"B", " ", "*"}

Segments(maxLen) == UNION {[1..n -> TokenChars] : n \in 0..maxLen}

\* tokens of one segment, and tokens of two segments joined by " OR "
Tokens ==
  Segments(MaxTokenLen)
    \cup {a \o SepOR \o b : a \in Segments(MaxTokenLen), b \in Segments(1)}

InitToken ==
  /\ gen \in {[phase |-> "token", workout |-> t] : t \in Tokens}
  /\ program = ProgramV1
  /\ schedule = <<>>
  /\ startDate = normalizeDate(Now)
  /\ expandedWorkoutId = Null
  /\ viewMode = "calendar"
  /\ storage = Persisted(schedule, startDate, viewMode)
  /\ ops = 0
  /\ last = [op |-> "none"]

\* the token is reduced for the lookups of the grid and of the detail card
Reduce ==
  /\ gen.phase = "token"
  /\ gen' = [phase |-> "reduced", workout |-> gen.workout,
             base |-> getBaseWorkout(gen.workout),
             cardBase |-> getBaseWorkoutLocal(gen.workout)]
  /\ UNCHANGED <<program, schedule, startDate, expandedWorkoutId, viewMode,
                 storage, ops, last>>

NextToken == Reduce

SpecToken == InitToken /\ [][NextToken]_vars

(***************************************************************************)
(* Persistence on its own: a session writes its state to localStorage and  *)
(* the next session starts from what it finds there.                       *)
(***************************************************************************)
StorageKeys == {"schedule", "startDate", "viewMode"}

\* stored texts that JSON.parse accepts but that are not arrays of arrays:
\* parsed.map or week.map is not a function
NotAnArray == [parsed |-> "{}"]
ArrayOfNonArrays == [parsed |-> "[1]"]

\* the text of a grid as a release without completion tracking wrote it:
\* the days have no completed field
LegacyText ==
  [json |-> [w \in DOMAIN SavedGridV0 |->
              [d \in DOMAIN SavedGridV0[w] |->
                 [date |-> toISOString(SavedGridV0[w][d].date),
                  workout |-> SavedGridV0[w][d].workout]]]]

\* grids a session can hold for program prog, generated from start: fresh,
\* with day (0,0) marked complete, with an exercise of day (0,0) ticked and
\* unticked again, with notes on day (0,1), and with all of these
GridsFrom(start, prog) ==
  LET g0 == generateSchedule(start, prog).value
      ids == allExerciseIds(0, 0, g0[1][1], getWorkoutProgram(g0[1][1].workout, prog))
      unticked == handleExerciseComplete(handleExerciseComplete(g0, 0, 0, ids[1]),
                                         0, 0, ids[1])
  IN {g0,
      handleBatchComplete(g0, 0, 0, ids, TRUE),
      unticked,
      handleNotesUpdate(g0, 0, 1, "sore"),
      handleNotesUpdate(handleExerciseComplete(unticked, 0, 0, ids[2]), 0, 0, "sore")}

StoreStarts == {PrevStart, MkDate(4, 0), normalizeDate(Now)}

\* what the previous session left: its state still to be written, or texts
\* found in storage, with the keys whose getItem throws
InitStore ==
  /\ gen \in
       UNION {{[phase |-> "memory", program |-> p, grid |-> g,
                startDate |-> g[1][1].date, viewMode |-> "list"] :
                 g \in UNION {GridsFrom(st, p) : st \in StoreStarts}} :
                p \in {ProgramV1, ProgramV2}}
       \cup
       {[phase |-> "stored", program |-> p,
         store |-> [schedule |-> sched, startDate |-> start, viewMode |-> view,
                    throws |-> throws]] :
          p \in {ProgramV1, ProgramV2},
          sched \in {Null, Corrupt, NotAnArray, ArrayOfNonArrays, LegacyText},
          start \in SavedStartDates, view \in SavedViewModes,
          throws \in {{}, {"schedule"}, StorageKeys}}
  /\ program = ProgramV1
  /\ schedule = <<>>
  /\ startDate = normalizeDate(Now)
  /\ expandedWorkoutId = Null
  /\ viewMode = "calendar"
  /\ storage = Persisted(schedule, startDate, viewMode)
  /\ ops = 0
  /\ last = [op |-> "none"]

\* the save effects of the session write its state
SaveState ==
  /\ gen.phase = "memory"
  /\ gen' = [phase |-> "stored", program |-> gen.program, grid |-> gen.grid,
             store |-> [schedule |-> stringifySchedule(gen.grid),
                        startDate |-> toISOString(gen.startDate),
                        viewMode |-> [text |-> gen.viewMode],
                        throws |-> {}]]
  /\ UNCHANGED <<program, schedule, startDate, expandedWorkoutId, viewMode,
                 storage, ops, last>>

\* the first render of WorkoutTracker: the initial state of useStartDate and
\* of usePersistedSchedule, whose reads are inside try/catch, and of
\* viewMode, whose read is not
Startup(store, now, prog) ==
  LET start == IF "startDate" \in store.throws THEN normalizeDate(now)
               ELSE loadStartDate(store.startDate, now)
      grid == IF "schedule" \in store.throws THEN generateSchedule(now, prog).value
              ELSE loadSchedule(store.schedule, now, prog)
  IN IF "viewMode" \in store.throws
     THEN Throw("localStorage.getItem")
     ELSE Return([schedule |-> grid, startDate |-> start,
                  viewMode |-> loadViewMode(store.viewMode)])

\* the next session starts
StartSession ==
  /\ gen.phase = "stored"
  /\ gen' = Spread(gen, [phase |-> "started",
                         result |-> Startup(gen.store, Now, gen.program)])
  /\ UNCHANGED <<program, schedule, startDate, expandedWorkoutId, viewMode,
                 storage, ops, last>>

NextStore == SaveState \/ StartSession

SpecStore == InitStore /\ [][NextStore]_vars

(***************************************************************************)
(* The WorkoutTracker on a program of more than ten weeks, first run.      *)
(***************************************************************************)
LongWeeks == 11

ProgramLong == MkProgram(TypesV1, Weeks(LongWeeks, <<NameB>>))

InitLong ==
  /\ program = ProgramLong
  /\ schedule = loadSchedule(Null, Now, program)
  /\ startDate = loadStartDate(Null, Now)
  /\ \E savedView \in SavedViewModes : viewMode = loadViewMode(savedView)
  /\ expandedWorkoutId = Null
  /\ storage = Persisted(schedule, startDate, viewMode)
  /\ ops = 0
  /\ last = [op |-> "none"]
  /\ gen = Idle

NextLong ==
  \/ \E c \in GridIndices(schedule) : CardClick(c.weekIndex, c.dayIndex)
  \/ ExerciseToggle
  \/ ClearProgress
  \/ MarkComplete
  \/ WorkoutClose
  \/ NotesChange
  \/ ToggleViewMode

SpecLong == InitLong /\ [][NextLong]_vars

(***************************************************************************)
(* The WorkoutTracker on programs whose workout "A" lists any exercises,   *)
(* repeated ones included, in its warm-up and throwing sections.           *)
(***************************************************************************)
MaxSectionLen == 2

\* the exercise lists a section of a program may hold
ExerciseLists ==
  UNION {[1..n -> {Occ("e1"), Occ("e2")}] : n \in 0..MaxSectionLen}

SectionPrograms ==
  {MkProgram([n \in {NameA, NameB} |->
                IF n = NameA
                THEN WorkoutType("a", <<Section("Warmup", ws),
                                        Section("Throwing", ts)>>)
                ELSE TypeB],
             Weeks(1, <<NameA, NameB>>)) :
     ws \in ExerciseLists, ts \in ExerciseLists}

InitSections ==
  /\ program \in SectionPrograms
  /\ schedule = loadSchedule(Null, Now, program)
  /\ startDate = loadStartDate(Null, Now)
  /\ viewMode = loadViewMode(Null)
  /\ expandedWorkoutId = Null
  /\ storage = Persisted(schedule, startDate, viewMode)
  /\ ops = 0
  /\ last = [op |-> "none"]
  /\ gen = Idle

NextSections ==
  \/ \E c \in GridIndices(schedule) : CardClick(c.weekIndex, c.dayIndex)
  \/ ExerciseToggle
  \/ MarkComplete
  \/ ClearProgress
  \/ WorkoutClose

SpecSections == InitSections /\ [][NextSections]_vars

(***************************************************************************)
(* The DatePicker component above the grid: its local state is kept in     *)
(* gen, its onDateChange prop is WorkoutTracker.handleDateChange.          *)
(***************************************************************************)
\* the useState initial values of DatePicker
DatePicker(selectedDate) ==
  [isExpanded |-> FALSE,
   tempDate |-> normalizeDate(selectedDate),
   showConfirmModal |-> FALSE,
   showStartOverModal |-> FALSE]

InitPicker ==
  /\ program = ProgramV1
  /\ \E savedSchedule \in {Null, stringifySchedule(SavedGridV0)},
        savedStart \in SavedStartDates :
       /\ schedule = loadSchedule(savedSchedule, Now, program)
       /\ startDate = loadStartDate(savedStart, Now)
  /\ viewMode = "calendar"
  /\ expandedWorkoutId = Null
  /\ storage = Persisted(schedule, startDate, viewMode)
  /\ ops = 0
  /\ last = [op |-> "none"]
  /\ gen = DatePicker(startDate)

PickerFrame ==
  UNCHANGED <<program, schedule, startDate, expandedWorkoutId, viewMode,
              storage, ops, last>>

\* the header button: setIsExpanded(!isExpanded)
PickerToggle ==
  /\ gen' = Spread(gen, [isExpanded |-> ~gen.isExpanded])
  /\ PickerFrame

\* DatePicker.handleDateChange: the date input, rendered while expanded
PickerDateInput ==
  /\ gen.isExpanded
  /\ \E localDate \in PickableDates \cup {Now} :
       gen' = Spread(gen, [tempDate |-> normalizeDate(localDate)])
  /\ PickerFrame

\* variant: Set Date applies a differing date at once
handleApplyDate_WithoutConfirm ==
  /\ gen.isExpanded
  /\ IF gen.tempDate # startDate
       THEN /\ handleDateChange(normalizeDate(gen.tempDate))
            /\ gen' = Spread(gen, [isExpanded |-> FALSE])
       ELSE /\ gen' = Spread(gen, [isExpanded |-> FALSE])
            /\ PickerFrame

\* Set Date: tempDate.getTime() !== selectedDate.getTime() opens the dialog
handleApplyDate ==
  /\ gen.isExpanded
  /\ IF gen.tempDate # startDate
       THEN gen' = Spread(gen, [showConfirmModal |-> TRUE])
       ELSE gen' = Spread(gen, [isExpanded |-> FALSE])
  /\ PickerFrame

\* Start Over: setShowStartOverModal(true)
ShowStartOver ==
  /\ gen.isExpanded
  /\ gen' = Spread(gen, [showStartOverModal |-> TRUE])
  /\ PickerFrame

\* the dialogs' onClose props
ConfirmModalClose ==
  /\ gen.showConfirmModal
  /\ gen' = Spread(gen, [showConfirmModal |-> FALSE])
  /\ PickerFrame

StartOverModalClose ==
  /\ gen.showStartOverModal
  /\ gen' = Spread(gen, [showStartOverModal |-> FALSE])
  /\ PickerFrame

\* the open dialog's confirm button: onConfirm, after which the dialog may
\* or may not call its onClose
handleConfirmDateChange ==
  /\ gen.showConfirmModal
  /\ handleDateChange(normalizeDate(gen.tempDate))
  /\ \E closes \in BOOLEAN :
       gen' = Spread(gen, [isExpanded |-> FALSE,
                           showConfirmModal |-> ~closes])

handleStartOver ==
  /\ gen.showStartOverModal
  /\ handleDateChange(normalizeDate(Now))
  /\ gen' = Spread(gen, [tempDate |-> normalizeDate(Now),
                         isExpanded |-> FALSE,
                         showStartOverModal |-> FALSE])

NextPicker ==
  \/ PickerToggle
  \/ PickerDateInput
  \/ handleApplyDate
  \/ ShowStartOver
  \/ ConfirmModalClose
  \/ StartOverModalClose
  \/ handleConfirmDateChange
  \/ handleStartOver
  \/ \E c \in GridIndices(schedule) : CardClick(c.weekIndex, c.dayIndex)
  \/ ExerciseToggle

SpecPicker == InitPicker /\ [][NextPicker]_vars

(***************************************************************************)
(* Properties.                                                             *)
(***************************************************************************)
Day(c) == schedule[c.weekIndex + 1][c.dayIndex + 1]

Resolves(workout, prog) == getBaseWorkout(workout) \in DOMAIN prog.workoutTypes

RECURSIVE SumExercises(_)
SumExercises(sections) ==
  IF sections = <<>> THEN 0
  ELSE Len(Head(sections).exercises) + SumExercises(Tail(sections))

\* the exercise occurrences of all sections of the workout type of a token
AllSectionsCount(workout, prog) ==
  IF Resolves(workout, prog)
  THEN SumExercises(prog.workoutTypes[getBaseWorkout(workout)].sections)
  ELSE 0

\* C1: the total of every day of the grid is the number of exercise
\* occurrences of all sections of the workout type its token resolves to,
\* whatever the sections are named, and 0 when the token does not resolve.
C1_TotalCountsAllSections ==
  \A c \in GridIndices(schedule) :
    totalExercises(Day(c), program) = AllSectionsCount(Day(c).workout, program)

GenDone == gen.phase = "done"
GenOk == GenDone /\ gen.result.ok
GenGrid == gen.result.value
GenWeeks == gen.program.schedule.weeks
\* local midnight of the start date
GenMidnight == MkDate(gen.start.day, 0)

\* C2: a generated grid has as many weeks as the program's schedule; day
\* (w,d) is dated midnight of the start date plus 7w + d days and carries
\* the token weeks[w].days[d]; day (0,0) is dated the normalized start.
C2_GridDatesAndTokens ==
  GenOk =>
    /\ Len(GenGrid) = Len(GenWeeks)
    /\ \A w \in DOMAIN GenGrid :
         /\ Len(GenGrid[w]) = Len(GenWeeks[w].days)
         /\ \A d \in DOMAIN GenGrid[w] :
              /\ GenGrid[w][d].date = AddDays(GenMidnight, 7 * (w - 1) + (d - 1))
              /\ GenGrid[w][d].workout = GenWeeks[w].days[d]
    /\ (Len(GenGrid) > 0 => GenGrid[1][1].date = GenMidnight)

\* a grid of several weeks, from a start date that is not at midnight and so
\* late in its month that the dates run over into the next month
C2_Witness ==
  /\ GenOk
  /\ Len(GenGrid) >= 2
  /\ gen.start.ms # 0
  /\ getDate(gen.start) + 7 > MonthLen

SevenDaysAndContiguous(grid) ==
  /\ \A w \in DOMAIN grid : Len(grid[w]) = 7
  /\ \A i \in 1..(Len(Flat(grid)) - 1) :
       Flat(grid)[i + 1].date = AddDays(Flat(grid)[i].date, 1)

\* C3 as stated: every returned grid has 7 days in every week and its dates,
\* read in (week, day) order, each follow the previous one by one day.
C3_EveryGridSevenDaysContiguous == GenOk => SevenDaysAndContiguous(GenGrid)

\* C3: a grid returned for a program whose weeks all list exactly 7 day
\* tokens has 7 days in every week and contiguous dates in (week, day)
\* order, also across week boundaries.
C3_SevenTokenWeeksContiguous ==
  (GenOk /\ \A w \in DOMAIN GenWeeks : Len(GenWeeks[w].days) = 7)
    => SevenDaysAndContiguous(GenGrid)

C3_Witness ==
  /\ GenOk
  /\ Len(GenGrid) >= 2
  /\ \A w \in DOMAIN GenWeeks : Len(GenWeeks[w].days) = 7
  /\ GenGrid[2][1].date = AddDays(GenGrid[1][7].date, 1)

GenScheduleMissingOrEmpty ==
  IF "schedule" \notin DOMAIN gen.program THEN TRUE
  ELSE IF gen.program.schedule = Undefined THEN TRUE
  ELSE IF "weeks" \notin DOMAIN gen.program.schedule THEN TRUE
  ELSE gen.program.schedule.weeks = <<>>

\* C4: generateSchedule fails with an error and returns no grid when the
\* schedule is absent, its weeks are absent, or its weeks are an empty list.
C4_RejectsMissingOrEmptyWeeks ==
  (GenDone /\ GenScheduleMissingOrEmpty) => ~gen.result.ok

DayIsFresh(day) ==
  /\ DOMAIN day.completed = {}
  /\ "userNotes" \notin DOMAIN day

\* C5: a step of handleDateChange leaves every day with an empty completion
\* map and no userNotes, and the grid is the one of the program projected
\* from the new start date, whatever the grid held before.
C5_DateChangeResets ==
  [][(ops' = ops + 1 /\ last'.op = "dateChange") =>
       /\ Len(schedule') = Len(program.schedule.weeks)
       /\ \A w \in DOMAIN schedule' :
            /\ Len(schedule'[w]) = Len(program.schedule.weeks[w].days)
            /\ \A d \in DOMAIN schedule'[w] :
                 /\ DayIsFresh(schedule'[w][d])
                 /\ schedule'[w][d].workout = program.schedule.weeks[w].days[d]
                 /\ schedule'[w][d].date =
                      AddDays(MkDate(startDate'.day, 0), 7 * (w - 1) + (d - 1))]_vars

\* handleDateChange has just run on a grid that had progress recorded
C5_Witness ==
  /\ last.op = "dateChange"
  /\ last.hadProgress
  /\ \A c \in GridIndices(schedule) : DayIsFresh(Day(c))

NotesOf(day) == IF "userNotes" \in DOMAIN day THEN <<day.userNotes>> ELSE <<>>

\* C6: a step of toggle, batch completion or set notes for day (w,d) keeps
\* the shape of the grid and every other day; the target day keeps its date
\* and token; toggle and batch keep its userNotes, set notes keeps its
\* completion map.
C6_MutationFrame ==
  [][(ops' = ops + 1 /\ last'.op \in {"toggle", "batch", "notes"}) =>
       /\ DOMAIN schedule' = DOMAIN schedule
       /\ \A w \in DOMAIN schedule :
            /\ DOMAIN schedule'[w] = DOMAIN schedule[w]
            /\ \A d \in DOMAIN schedule[w] :
                 IF w - 1 = last'.weekIndex /\ d - 1 = last'.dayIndex
                 THEN /\ schedule'[w][d].date = schedule[w][d].date
                      /\ schedule'[w][d].workout = schedule[w][d].workout
                      /\ last'.op \in {"toggle", "batch"} =>
                           NotesOf(schedule'[w][d]) = NotesOf(schedule[w][d])
                      /\ last'.op = "notes" =>
                           schedule'[w][d].completed = schedule[w][d].completed
                 ELSE schedule'[w][d] = schedule[w][d]]_vars

\* notes were just set on a day that has completion entries, in a grid where
\* another day has completion entries as well
C6_Witness ==
  /\ last.op = "notes"
  /\ DOMAIN schedule[last.weekIndex + 1][last.dayIndex + 1].completed # {}
  /\ "userNotes" \in DOMAIN schedule[last.weekIndex + 1][last.dayIndex + 1]
  /\ \E c \in GridIndices(schedule) :
       /\ c.dayIndex # last.dayIndex
       /\ DOMAIN Day(c).completed # {}

TrueEntries(day) == {k \in DOMAIN day.completed : day.completed[k]}

\* is complete, by the rule: total > 0 and completed >= total
CompleteByRule(day) ==
  /\ totalExercises(day, program) > 0
  /\ Cardinality(TrueEntries(day)) >= totalExercises(day, program)

\* C7: completed is the number of entries of the completion map that are
\* true; a day is complete exactly when total > 0 and completed >= total,
\* on its card and in the program-wide count of completed days alike.
C7_CompleteRule ==
  /\ \A c \in GridIndices(schedule) :
       /\ completedCount(Day(c)) = Cardinality(TrueEntries(Day(c)))
       /\ isCompleted(Day(c), program) = CompleteByRule(Day(c))
       /\ CountsAsCompletedDay(Day(c), program) = CompleteByRule(Day(c))
  /\ progressStats(schedule, program).completed =
       Cardinality({c \in GridIndices(schedule) : CompleteByRule(Day(c))})

\* one day is complete, another has some but not all exercises completed,
\* and a third has a false entry in its map
C7_Witness ==
  /\ \E c \in GridIndices(schedule) : isCompleted(Day(c), program)
  /\ \E c \in GridIndices(schedule) :
       /\ completedCount(Day(c)) > 0
       /\ completedCount(Day(c)) < totalExercises(Day(c), program)
  /\ \E c \in GridIndices(schedule) :
       \E k \in DOMAIN Day(c).completed : ~Day(c).completed[k]

\* C8 as stated: for every day and token, resolving or not, isInProgress
\* equals (completed > 0 and not isComplete).
C8_InProgressForEveryToken ==
  \A c \in GridIndices(schedule) :
    inProgress(Day(c), program) =
      (completedCount(Day(c)) > 0 /\ ~isCompleted(Day(c), program))

\* C8: for every day whose token resolves to a workout type, isInProgress
\* equals (completed > 0 and not isComplete); for a day whose token does
\* not resolve, isInProgress is false.
C8_InProgressWhenResolved ==
  \A c \in GridIndices(schedule) :
    IF Resolves(Day(c).workout, program)
    THEN inProgress(Day(c), program) =
           (Cardinality(TrueEntries(Day(c))) > 0 /\ ~CompleteByRule(Day(c)))
    ELSE ~inProgress(Day(c), program)

\* a day with an unresolved token has true entries, a resolving day is in
\* progress and another resolving day is complete
C8_Witness ==
  /\ \E c \in GridIndices(schedule) :
       ~Resolves(Day(c).workout, program) /\ completedCount(Day(c)) > 0
  /\ \E c \in GridIndices(schedule) :
       Resolves(Day(c).workout, program) /\ inProgress(Day(c), program)
  /\ \E c \in GridIndices(schedule) : CompleteByRule(Day(c))

\* C9: a day whose total is 0 has an undefined percentage, is not complete
\* and is not in progress, whatever its completion map contains.
C9_ZeroTotalIsInert ==
  \A c \in GridIndices(schedule) :
    totalExercises(Day(c), program) = 0 =>
      /\ completionPercentage(Day(c), program) = Undefined
      /\ ~isCompleted(Day(c), program)
      /\ ~inProgress(Day(c), program)

\* C10: for a day whose reduced workout name is "Off", only the exercises
\* of the recovery section count toward the day's total.
C10_OffCountsRecoveryOnly ==
  \A c \in GridIndices(schedule) :
    (getBaseWorkout(Day(c).workout) = NameOff /\ Resolves(Day(c).workout, program)) =>
      totalExercises(Day(c), program) =
        Len(getWorkoutProgram(Day(c).workout, program).recovery)

\* Math.round(0 / 0 * 100) is NaN, any other percentage is a number
PercentageIsNumber(stats) == stats.total # 0

\* C11: the program progress has total = the number of days of the grid,
\* completed = the number of days that are complete, percentage = completed
\* / total * 100 rounded to the nearest integer (half up); completed <=
\* total and percentage is an integer in 0..100.
C11_ProgressStats ==
  LET stats == progressStats(schedule, program)
      days == GridIndices(schedule)
  IN /\ stats.total = Cardinality(days)
     /\ stats.completed = Cardinality({c \in days : CompleteByRule(Day(c))})
     /\ stats.completed <= stats.total
     /\ PercentageIsNumber(stats)
     /\ stats.percentage \in 0..100
     /\ 2 * stats.total * stats.percentage <= 200 * stats.completed + stats.total
     /\ 200 * stats.completed + stats.total < 2 * stats.total * (stats.percentage + 1)

Shown == gen.phase = "shown"
InCatalog(exercise) == exercise.id \in DOMAIN ExerciseData.exercises
Base(exercise) == ExerciseData.exercises[exercise.id]

DefaultField(f) ==
  CASE f = "sets" -> "defaultSets"
    [] f = "reps" -> "defaultReps"
    [] f = "rpe" -> "defaultRpe"
    [] f = "notes" -> "defaultNotes"

\* C12: for an occurrence whose id is in the catalog and each of sets,
\* reps, rpe and notes, the value shown is the occurrence's value when the
\* occurrence defines the field (0 and the empty string included), else
\* the base record's default for the field, else nothing.
C12_ShownValueIsOverrideElseDefault ==
  (Shown /\ InCatalog(gen.exercise)) =>
    \A f \in {"sets", "reps", "rpe", "notes"} :
      gen.row[f] =
        IF f \in DOMAIN gen.exercise THEN <<gen.exercise[f]>>
        ELSE IF DefaultField(f) \in DOMAIN Base(gen.exercise)
             THEN <<Base(gen.exercise)[DefaultField(f)]>>
             ELSE <<>>

\* C13: for an occurrence whose id is in the catalog, the resolved exercise
\* has the name, category and videoUrl of the base record (and lacks the
\* ones the base record lacks), whatever fields the occurrence carries.
C13_BaseIdentityPreserved ==
  (Shown /\ InCatalog(gen.exercise)) =>
    \A f \in {"name", "category", "videoUrl"} :
      OptField(gen.resolved, f) = OptField(Base(gen.exercise), f)

Reduced == gen.phase = "reduced"

NoOuterWhitespace(name) ==
  name = <<>> \/ (name[1] # " " /\ name[Len(name)] # " ")

\* name without its last character when that is '*'
WithoutTrailingStar(name) ==
  IF name # <<>> /\ name[Len(name)] = "*" THEN SubSeq(name, 1, Len(name) - 1)
  ELSE name

\* the first " OR " segment of the token, whitespace around it dropped, a
\* '*' at its end removed and the whitespace before that '*' dropped
FirstSegmentReduced(workout) ==
  Trim(WithoutTrailingStar(Trim(SplitFirst(workout, SepOR))))

\* C14: getBaseWorkout returns the first segment of the token split on
\* " OR ", with a trailing '*' removed and no leading or trailing
\* whitespace, and the reduction the detail card uses for its workoutTypes
\* lookup returns the same name.
C14_BaseWorkoutReduction ==
  Reduced =>
    /\ NoOuterWhitespace(gen.base)
    /\ gen.base = FirstSegmentReduced(gen.workout)
    /\ gen.cardBase = gen.base

\* the exercises of an expansion, in the order of the detail view
ExpandedExercises(details) == details.warmup \o details.throwing \o details.recovery

\* the occurrences listed by the sections of a workout type
SectionOccurrences(workoutType) ==
  UNION {Range(workoutType.sections[i].exercises) : i \in DOMAIN workoutType.sections}

\* the row of an exercise shows the exercise's own name, or its id when it
\* has no name, and its own sets, reps, rpe and notes, or nothing
ShownFromOwnFields(exercise) ==
  /\ ExerciseRow(exercise).name =
       IF "name" \in DOMAIN exercise THEN <<exercise.name>> ELSE <<exercise.id>>
  /\ \A f \in {"sets", "reps", "rpe", "notes"} :
       ExerciseRow(exercise)[f] =
         IF f \in DOMAIN exercise THEN <<exercise[f]>> ELSE <<>>

\* card data that name the token itself and list no sections
IsPlaceholderFor(info, workout) ==
  /\ {"id", "name", "sections"} \subseteq DOMAIN info
  /\ info.id = "custom"
  /\ info.name = workout
  /\ info.sections = <<>>

\* C15: a day whose token does not resolve has no expansion, a total of 0,
\* is neither complete nor in progress, has no percentage, no exercise keys
\* in its detail view and the placeholder card data; a day whose token
\* resolves has its workout type's card data and the statistics of the
\* rule, and each of its exercises whose id is not in the catalog is the
\* occurrence as listed, shown from its own fields.
C15_UnresolvedReferencesTolerated ==
  \A c \in GridIndices(schedule) :
    IF ~Resolves(Day(c).workout, program)
    THEN /\ getWorkoutProgram(Day(c).workout, program) = Undefined
         /\ totalExercises(Day(c), program) = 0
         /\ ~isCompleted(Day(c), program)
         /\ ~inProgress(Day(c), program)
         /\ completionPercentage(Day(c), program) = Undefined
         /\ ~CountsAsCompletedDay(Day(c), program)
         /\ getWorkoutDetails(schedule, program,
                              createWorkoutId(c.weekIndex, c.dayIndex)) = Null
         /\ allExerciseIds(c.weekIndex, c.dayIndex, Day(c),
                           DetailsOrEmpty(schedule, program,
                                          createWorkoutId(c.weekIndex, c.dayIndex))) = <<>>
         /\ IsPlaceholderFor(getWorkoutInfo(Day(c).workout, program.workoutTypes),
                             Day(c).workout)
    ELSE /\ getWorkoutProgram(Day(c).workout, program) # Undefined
         /\ getWorkoutInfo(Day(c).workout, program.workoutTypes) =
              program.workoutTypes[getBaseWorkout(Day(c).workout)]
         /\ isCompleted(Day(c), program) = CompleteByRule(Day(c))
         /\ (completionPercentage(Day(c), program) = Undefined)
              = (totalExercises(Day(c), program) = 0)
         /\ \A ex \in Range(ExpandedExercises(getWorkoutProgram(Day(c).workout, program))) :
              ~InCatalog(ex) =>
                /\ ex \in SectionOccurrences(
                             program.workoutTypes[getBaseWorkout(Day(c).workout)])
                /\ ShownFromOwnFields(ex)

\* a day with an unresolved token that has true completion entries is
\* expanded, next to a complete day and to a day whose expansion holds an
\* exercise that is not in the catalog
C15_Witness ==
  /\ expandedWorkoutId # Null
  /\ \E c \in GridIndices(schedule) :
       /\ expandedWorkoutId = createWorkoutId(c.weekIndex, c.dayIndex)
       /\ ~Resolves(Day(c).workout, program)
       /\ completedCount(Day(c)) > 0
  /\ \E c \in GridIndices(schedule) : isCompleted(Day(c), program)
  /\ \E c \in GridIndices(schedule) :
       /\ Resolves(Day(c).workout, program)
       /\ \E ex \in Range(ExpandedExercises(getWorkoutProgram(Day(c).workout, program))) :
            ~InCatalog(ex)

\* the grid has a last week and that week has a last day
GenHasLastDay == GenOk /\ GenGrid # <<>> /\ GenGrid[Len(GenGrid)] # <<>>

GenLastDay == GenGrid[Len(GenGrid)][Len(GenGrid[Len(GenGrid)])]

\* the end date shown is the calendar day startDate + (length * 7 - 1) and
\* the day of the last day of the last week of the grid
EndDateIsLastDay ==
  /\ normalizeDate(gen.endDate) =
       AddDays(GenMidnight, gen.program.schedule.length * 7 - 1)
  /\ normalizeDate(gen.endDate) = GenLastDay.date

\* C16 as stated: for every program and start date, the end date shown is
\* startDate + (schedule.length * 7 - 1) days and is the date of the last
\* day of the last week of the generated grid.
C16_EndDateIsLastDayOfEveryGrid == GenHasLastDay => EndDateIsLastDay

\* C16: for every start date and every program whose schedule.length is
\* the number of weeks it lists and whose weeks each list exactly 7 tokens,
\* the end date shown is startDate + (schedule.length * 7 - 1) days and is
\* the date of the last day of the last week of the generated grid.
C16_EndDateIsLastDayOfRegularGrid ==
  (/\ GenHasLastDay
   /\ gen.program.schedule.length = Len(GenWeeks)
   /\ \A w \in DOMAIN GenWeeks : Len(GenWeeks[w].days) = 7)
    => EndDateIsLastDay

\* a grid of several 7-day weeks whose last day falls in a later month than
\* a start date that is not at midnight
C16_Witness ==
  /\ GenHasLastDay
  /\ Len(GenGrid) >= 2
  /\ gen.program.schedule.length = Len(GenWeeks)
  /\ \A w \in DOMAIN GenWeeks : Len(GenWeeks[w].days) = 7
  /\ gen.start.ms # 0
  /\ gen.endDate.day \div MonthLen > gen.start.day \div MonthLen
  /\ normalizeDate(gen.endDate) = GenLastDay.date

Started == gen.phase = "started"

\* the session started from what a session wrote from its grid gen.grid
StartedFromSaved == Started /\ "grid" \in DOMAIN gen

\* C17: a grid saved to storage and loaded back is equal to the original:
\* the same number of weeks and of days in each week and, for every day,
\* the same date, token, completion map and userNotes, and nothing else;
\* and every day of a grid loaded from a stored text has a completion map,
\* the empty one when the stored day has none.
C17_SaveLoadRoundTrip ==
  /\ StartedFromSaved =>
       /\ gen.result.ok
       /\ LET loaded == gen.result.value.schedule IN
            /\ Len(loaded) = Len(gen.grid)
            /\ \A w \in DOMAIN gen.grid :
                 /\ Len(loaded[w]) = Len(gen.grid[w])
                 /\ \A d \in DOMAIN gen.grid[w] :
                      /\ loaded[w][d].date = gen.grid[w][d].date
                      /\ loaded[w][d].workout = gen.grid[w][d].workout
                      /\ loaded[w][d].completed = gen.grid[w][d].completed
                      /\ NotesOf(loaded[w][d]) = NotesOf(gen.grid[w][d])
            /\ loaded = gen.grid
  /\ (/\ Started
      /\ gen.store.throws = {}
      /\ gen.store.schedule # Null
      /\ "json" \in DOMAIN gen.store.schedule) =>
       /\ gen.result.ok
       /\ \A w \in DOMAIN gen.store.schedule.json :
            \A d \in DOMAIN gen.store.schedule.json[w] :
              gen.result.value.schedule[w][d].completed =
                IF "completed" \in DOMAIN gen.store.schedule.json[w][d]
                THEN gen.store.schedule.json[w][d].completed
                ELSE EmptyCompleted

\* a grid was loaded back that has a day with a true and a false entry and
\* notes, and whose dates run into the next month
C17_Witness ==
  /\ StartedFromSaved
  /\ gen.result.ok
  /\ gen.result.value.schedule = gen.grid
  /\ \E k \in DOMAIN gen.grid[1][1].completed : gen.grid[1][1].completed[k]
  /\ \E k \in DOMAIN gen.grid[1][1].completed : ~gen.grid[1][1].completed[k]
  /\ "userNotes" \in DOMAIN gen.grid[1][1]
  /\ gen.grid[1][7].date.day \div MonthLen > gen.grid[1][1].date.day \div MonthLen

\* reading the persisted schedule fails: getItem throws, JSON.parse rejects
\* the text, or the value is not an array of arrays
ScheduleReadFails(store) ==
  \/ "schedule" \in store.throws
  \/ /\ store.schedule # Null
     /\ "json" \notin DOMAIN store.schedule

\* C18: when reading the persisted schedule fails, the session starts
\* without an error, on a grid freshly generated from the default start
\* date with every completion map empty.
C18_ReadFailureFallsBack ==
  (Started /\ ScheduleReadFails(gen.store)) =>
    /\ gen.result.ok
    /\ gen.result.value.schedule = generateSchedule(Now, gen.program).value
    /\ \A w \in DOMAIN gen.result.value.schedule :
         \A d \in DOMAIN gen.result.value.schedule[w] :
           DayIsFresh(gen.result.value.schedule[w][d])

\* the day the handler that ran last was called for, before and after
TargetBefore == schedule[last'.weekIndex + 1][last'.dayIndex + 1]
TargetAfter == schedule'[last'.weekIndex + 1][last'.dayIndex + 1]

\* the exercise keys of the detail view of the target day
TargetKeys ==
  allExerciseIds(last'.weekIndex, last'.dayIndex, TargetBefore,
                 DetailsOrEmpty(schedule, program,
                                createWorkoutId(last'.weekIndex, last'.dayIndex)))

\* the days other than the target are those of the grid in memory
OthersAsInMemory ==
  /\ DOMAIN schedule' = DOMAIN schedule
  /\ \A w \in DOMAIN schedule :
       /\ DOMAIN schedule'[w] = DOMAIN schedule[w]
       /\ \A d \in DOMAIN schedule[w] :
            (w - 1 # last'.weekIndex \/ d - 1 # last'.dayIndex) =>
              schedule'[w][d] = schedule[w][d]

\* the state in memory holds what the user action asked for
ActionApplied ==
  CASE last'.op = "dateChange" ->
         /\ startDate' = last'.requested
         /\ \A w \in DOMAIN schedule' : \A d \in DOMAIN schedule'[w] :
              /\ DayIsFresh(schedule'[w][d])
              /\ schedule'[w][d].date =
                   AddDays(normalizeDate(last'.requested), 7 * (w - 1) + (d - 1))
    [] last'.op = "toggle" ->
         /\ OthersAsInMemory
         /\ \E k \in DOMAIN TargetAfter.completed :
              TargetAfter.completed =
                Spread(TargetBefore.completed, [j \in {k} |-> NotCompleted(TargetBefore, k)])
    [] last'.op = "batch" ->
         /\ OthersAsInMemory
         /\ \E flag \in BOOLEAN :
              TargetAfter.completed =
                Spread(TargetBefore.completed, [j \in Range(TargetKeys) |-> flag])
    [] last'.op = "notes" ->
         /\ OthersAsInMemory
         /\ TargetAfter.completed = TargetBefore.completed
         /\ "userNotes" \in DOMAIN TargetAfter
         /\ TargetAfter.userNotes \in NoteTexts

\* C19: while setItem throws, a step of a user action stores nothing under
\* the keys that throw, yet the grid, the start date and the view mode in
\* memory hold what the action asked for, computed from the values in
\* memory; the other steps leave the grid and the start date in memory as
\* they are.
C19_FailedWriteStillApplied ==
  [][storage.throws # {} =>
       /\ storage'.throws = storage.throws
       /\ \A key \in storage.throws : storage'[key] = storage[key]
       /\ (ops' = ops + 1) => ActionApplied
       /\ (ops' = ops) => (schedule' = schedule /\ startDate' = startDate)
       /\ ToggleViewMode => viewMode' # viewMode]_vars

\* notes were set as the last of MaxOps mutations on a day that an earlier
\* mutation gave completion entries, the view mode was switched, and not
\* one of these was written
C19_Witness ==
  /\ storage.throws = {"schedule", "startDate", "viewMode"}
  /\ ops = MaxOps
  /\ last.op = "notes"
  /\ DOMAIN schedule[last.weekIndex + 1][last.dayIndex + 1].completed # {}
  /\ "userNotes" \in DOMAIN schedule[last.weekIndex + 1][last.dayIndex + 1]
  /\ viewMode = "list"
  /\ storage.schedule = Null
  /\ storage.viewMode = Null

ExpandedDays ==
  {c \in GridIndices(schedule) : isExpanded(expandedWorkoutId, c.weekIndex, c.dayIndex)}

\* C21: in every reachable state at most one day of the grid is expanded,
\* and a day is expanded whenever an identifier is held.
C21_AtMostOneExpanded ==
  /\ Cardinality(ExpandedDays) <= 1
  /\ expandedWorkoutId # Null => Cardinality(ExpandedDays) = 1

\* a day is expanded after a date change that followed an earlier mutation
C21_Witness ==
  /\ Cardinality(ExpandedDays) = 1
  /\ last.op = "dateChange"
  /\ ops = MaxOps

\* a step in which the picker called onDateChange
OnDateChangeInvoked == ops' = ops + 1 /\ last'.op = "dateChange"

\* C22: onDateChange is invoked only by the confirm button of an open
\* confirmation dialog; a step that changes the picker's state without it
\* (choosing a date, Set Date, Start Over, cancel) and a Set Date with a
\* date equal to the start date change neither the grid nor the start date.
C22_RegenerateOnlyAfterConfirm ==
  [][/\ OnDateChangeInvoked => gen.showConfirmModal \/ gen.showStartOverModal
     /\ startDate' # startDate => OnDateChangeInvoked
     /\ ~OnDateChangeInvoked /\ gen' # gen =>
          schedule' = schedule /\ startDate' = startDate
     /\ gen.tempDate = startDate /\ ~gen.showConfirmModal
          /\ ~gen.showStartOverModal =>
          ~OnDateChangeInvoked]_vars

\* a confirmed date change has replaced a grid that held progress
C22_Witness ==
  /\ last.op = "dateChange"
  /\ last.hadProgress
  /\ last.requested = startDate
  /\ ~gen.isExpanded

\* C23: when writes succeed, the schedule key holds, after every step, a
\* text that deserializes to the current in-memory grid (the value written
\* by the last mutation).
C23_StoredIsCurrentGrid ==
  /\ storage.throws = {}
  /\ storage.schedule # Null
  /\ "json" \in DOMAIN storage.schedule
  /\ loadSchedule(storage.schedule, Now, program) = schedule

\* two mutations have been persisted, the last one a notes edit
C23_Witness ==
  /\ ops = MaxOps
  /\ last.op = "notes"
  /\ HasProgress(schedule)
  /\ loadSchedule(storage.schedule, Now, program) = schedule

\* the step is a batch call for the day of card c
BatchStepFor(c) ==
  /\ ops' = ops + 1
  /\ last' = Called("batch", c.weekIndex, c.dayIndex)

\* every key listed in card c is present in the day's map with value v
AllKeysSet(c, day, v) ==
  \A i \in DOMAIN CardKeys(c) :
    /\ CardKeys(c)[i] \in DOMAIN day.completed
    /\ day.completed[CardKeys(c)[i]] = v

\* C24: Complete sets every listed key of day (w,d) to true and collapses
\* the view, after which a day with total > 0 is reported complete and not
\* in progress; Clear Progress sets the same keys to false and leaves the
\* view expanded.
C24_CompleteAndClear ==
  [][\A c \in DetailCards(schedule, expandedWorkoutId, viewMode) :
       BatchStepFor(c) =>
         \/ /\ expandedWorkoutId' = Null
            /\ AllKeysSet(c, DayAt(schedule', c.weekIndex, c.dayIndex), TRUE)
            /\ totalExercises(DayAt(schedule', c.weekIndex, c.dayIndex), program) > 0
                 => /\ isCompleted(DayAt(schedule', c.weekIndex, c.dayIndex), program)
                    /\ ~inProgress(DayAt(schedule', c.weekIndex, c.dayIndex), program)
         \/ /\ expandedWorkoutId' = expandedWorkoutId
            /\ AllKeysSet(c, DayAt(schedule', c.weekIndex, c.dayIndex), FALSE)]_vars

\* C25: in every reachable state the in-memory start date is the date of
\* day (0,0) of the in-memory grid, and both are at local midnight.
C25_StartDateIsFirstDay ==
  [weekIndex |-> 0, dayIndex |-> 0] \in GridIndices(schedule) =>
    /\ startDate = DayAt(schedule, 0, 0).date
    /\ startDate = normalizeDate(startDate)
    /\ DayAt(schedule, 0, 0).date = normalizeDate(DayAt(schedule, 0, 0).date)

\* the day the expanded identifier names
ExpandedDay == [weekIndex |-> expandedWorkoutId.week, dayIndex |-> expandedWorkoutId.day]

\* the step is a toggle, batch completion or notes edit
DetailViewCall ==
  /\ ops' = ops + 1
  /\ last'.op \in {"toggle", "batch", "notes"}

\* C26: while day (w,d) is expanded the detail view is shown for that day
\* only, inside week w only, and a toggle, batch completion or notes edit
\* issued from a displayed detail view is applied to day (w,d) and changes
\* no other day.
C26_DetailViewActsOnExpandedDay ==
  /\ [](expandedWorkoutId # Null =>
          DetailCards(schedule, expandedWorkoutId, viewMode) = {ExpandedDay})
  /\ [][DetailViewCall =>
          /\ last'.weekIndex = expandedWorkoutId.week
          /\ last'.dayIndex = expandedWorkoutId.day
          /\ \A c \in GridIndices(schedule) :
               c # ExpandedDay =>
                 DayAt(schedule', c.weekIndex, c.dayIndex) =
                   DayAt(schedule, c.weekIndex, c.dayIndex)]_vars

\* the completion keys of the rows of day c's detail view, in order
DayKeys(c) ==
  allExerciseIds(c.weekIndex, c.dayIndex, Day(c),
                 DetailsOrEmpty(schedule, program,
                                createWorkoutId(c.weekIndex, c.dayIndex)))

\* C27: within one day two distinct exercise occurrences never get the same
\* completion key, and the number of distinct keys is the day's total.
C27_KeysDistinctPerOccurrence ==
  \A c \in GridIndices(schedule) :
    /\ \A i, j \in DOMAIN DayKeys(c) : i # j => DayKeys(c)[i] # DayKeys(c)[j]
    /\ Cardinality(Range(DayKeys(c))) = totalExercises(Day(c), program)

\* C28: in every reachable state every day with total > 0 has
\* completed <= total, so its completion percentage lies between 0 and 100.
C28_CompletedAtMostTotal ==
  \A c \in GridIndices(schedule) :
    totalExercises(Day(c), program) > 0 =>
      /\ completedCount(Day(c)) <= totalExercises(Day(c), program)
      /\ completionPercentage(Day(c), program).num >= 0
      /\ completionPercentage(Day(c), program).num <=
           100 * completionPercentage(Day(c), program).den

\* the sections of the detail card c, as WorkoutDetailCard renders them
CardSections(c) ==
  workoutSections(DayAt(schedule, c.weekIndex, c.dayIndex),
                  DetailsOrEmpty(schedule, program, expandedWorkoutId))

\* the positions of a section whose row is shown as completed
CompletedRows(c, section) ==
  {i \in DOMAIN section.exercises :
     LET key == SectionKeys(c.weekIndex, c.dayIndex, section)[i]
         completed == DayAt(schedule, c.weekIndex, c.dayIndex).completed
     IN key \in DOMAIN completed /\ completed[key]}

\* C29: the counter in the header of each section of the detail view is the
\* number of that section's exercises that are completed, and so never
\* exceeds the number of exercises in the section.
C29_SectionCounterCountsOwnExercises ==
  \A c \in DetailCards(schedule, expandedWorkoutId, viewMode) :
    \A i \in DOMAIN CardSections(c) :
      LET header == WorkoutSectionHeader(
                      CardSections(c)[i],
                      DayAt(schedule, c.weekIndex, c.dayIndex).completed)
      IN /\ header.completedCount =
              Cardinality(CompletedRows(c, CardSections(c)[i]))
         /\ header.completedCount <= header.length

\* the grid has as many weeks as the program, and each day carries the
\* program's token of its week and day index
HasShapeOf(grid, prog) ==
  /\ Len(grid) = Len(prog.schedule.weeks)
  /\ \A w \in DOMAIN grid :
       /\ Len(grid[w]) = Len(prog.schedule.weeks[w].days)
       /\ \A d \in DOMAIN grid[w] :
            grid[w][d].workout = prog.schedule.weeks[w].days[d]

\* C30: after start-up, whatever the schedule key held, the in-memory grid
\* has the shape of the current program.
C30_LoadedGridHasProgramShape ==
  ops = 0 => HasShapeOf(schedule, program)

====
